---- MODULE Spec2Model ----
(***************************************************************************)
(* Model of the 5-channel IR flame detector (class IRFlameSensor):         *)
(* oversampled sampling, EMA baseline, spike classification, spatial       *)
(* voting and temporal verification, driven by a millisecond clock.        *)
(*                                                                         *)
(* float fields (baseline, deviation) are held in fixed point, in units    *)
(* of 1/FixedScale mV, rounded to nearest after every multiplication.      *)
(* unsigned long values stay below 2^31 within MaxTime; the one place      *)
(* where the 32-bit width shows, an unsigned difference of a later from an *)
(* earlier time, is modelled by ElapsedAtLeast.                            *)
(***************************************************************************)
EXTENDS Integers, FiniteSets, Sequences, TLC

VARIABLES
    clock,                    \* millis(): the millisecond clock
    adc,                      \* analog level (mV) at each channel's pin, as last sampled
    rawMilliVolts,            \* channels[i].rawMilliVolts
    baseline,                 \* channels[i].baseline   (fixed point)
    deviation,                \* channels[i].deviation  (fixed point)
    isSpike,                  \* channels[i].isSpike
    lastSpikeTime,            \* channels[i].lastSpikeTime
    currentState,
    potentialFlameStartTime,
    sensitivityMargin,
    lastUpdateTime,
    lastOp,                   \* history: the operation that ran last
    cyc,                      \* history: what the last executed cycle saw
    streak,                   \* history: every cycle since the stamp was a point source
    dropAt,                   \* history: `now` of the last Potential -> Idle drop, or -1
    held,                     \* history: readings held since an all-channel spike
    cycles,                   \* history: number of executed cycles
    changes,                  \* history: number of changes of the readings
    calls,                    \* history: number of setter / reset calls
    marginArg,                \* history: argument of the last setSensitivityMargin, or -1
    probe,                    \* history: the last single-channel query and what it returned
    peak                      \* history: largest rawMilliVolts[i] since construction / reset

vars == <<clock, adc, rawMilliVolts, baseline, deviation, isSpike, lastSpikeTime,
          currentState, potentialFlameStartTime, sensitivityMargin, lastUpdateTime,
          lastOp, cyc, streak, dropAt, held, cycles, changes, calls,
          marginArg, probe, peak>>

detector == <<rawMilliVolts, baseline, deviation, isSpike, lastSpikeTime,
              currentState, potentialFlameStartTime, sensitivityMargin, lastUpdateTime>>

history == <<cyc, streak, dropAt, held, cycles, peak>>

queries == <<marginArg, probe>>

----------------------------------------------------------------------------
(* Program constants *)

IR_NUM_CHANNELS == 5
OVERSAMPLING_SAMPLES == 64
EMA_ALPHA_PERCENT == 1
SENSITIVITY_MARGIN == 300
AMBIENT_INTERFERENCE_MIN == 4
TEMPORAL_VERIFICATION_MS == 500
FLAME_DETECTION_UPDATE_MS == 50

FixedScale == 100
Word16 == 65536

FLAME_IDLE == "FLAME_IDLE"
FLAME_POTENTIAL == "FLAME_POTENTIAL"
FLAME_DETECTED == "FLAME_DETECTED"
FLAME_AMBIENT_INTERFERENCE == "FLAME_AMBIENT_INTERFERENCE"

FlameDetectionState ==
    {FLAME_IDLE, FLAME_POTENTIAL, FLAME_DETECTED, FLAME_AMBIENT_INTERFERENCE}

Channels == 0 .. (IR_NUM_CHANNELS - 1)

----------------------------------------------------------------------------
(* Bounds of the model *)

MaxTime == 700
MaxCycles == 4
MaxEvents == 1
MaxScenarioCycles == 12
MaxAbsorbCycles == 820
WarmCycles == 2

\* Time between two calls of the host loop.
Ticks == {46, 496}
EarlyTicks == {20, 25}
ProbeChannels == (0 .. 6) \cup {255}
ProbeLevels == {0, 1000, 3300}
HighReads == {0, 1, 63, 64}
PositiveMargins == {1}
\* <<a, b>>: the ms the 5 x 64 analog reads of one cycle take (from the millis()
\* of update to the one of evaluateSpatialPattern), and the ms from there to the
\* millis() of evaluateTemporal.
Delays == {<<3, 0>>, <<4, 0>>}
\* Margins the setter is called with.
Margins == {0, Word16 - 1}

Levels(a, b, c, d, e) == [i \in Channels |->
    CASE i = 0 -> a [] i = 1 -> b [] i = 2 -> c [] i = 3 -> d [] OTHER -> e]

\* Analog levels the environment presents (mV per channel).
ReadingVectors ==
    { Levels(0, 0, 0, 0, 0),              \* nothing
      Levels(0, 0, 1000, 0, 0),           \* one channel
      Levels(0, 0, 304, 0, 0),            \* one channel, absorbed after a cycle
      Levels(0, 1000, 1000, 0, 0),        \* two adjacent channels
      Levels(0, 1000, 0, 1000, 0),        \* two channels, not adjacent
      Levels(1000, 0, 1000, 0, 1000),     \* three channels
      Levels(1000, 1000, 1000, 1000, 0),  \* four channels
      Levels(3300, 304, 304, 304, 304) }  \* all five, at different levels

----------------------------------------------------------------------------
(* Arithmetic *)

\* (unsigned long)(t - since) >= ms, for t, since < 2^31 and ms < 2^31: when
\* t < since the difference wraps to 2^32 - (since - t), which is above ms.
ElapsedAtLeast(t, since, ms) == IF t >= since THEN t - since >= ms ELSE TRUE

\* x * pct / 100 in fixed point, rounded to nearest.
MulPercent(pct, x) == (pct * x + 50) \div 100

----------------------------------------------------------------------------
(* The detector's private methods, as functions of the fields they read *)

\* pins: the level analogReadMilliVolts finds at each channel's pin.
readChannelMilliVolts(pins, channel) ==
    IF channel >= IR_NUM_CHANNELS THEN 0
    ELSE ((OVERSAMPLING_SAMPLES * pins[channel]) \div OVERSAMPLING_SAMPLES) % Word16

\* What analogReadMilliVolts returns on the 64 successive calls of one
\* oversampling loop, when the pin is at `level` and `high` of the
\* conversions come out one millivolt higher.
analogReads(level, high) ==
    [j \in 1 .. OVERSAMPLING_SAMPLES |-> IF j <= high THEN level + 1 ELSE level]

\* The oversampling loop: totalMV after i iterations, and the number of
\* analog reads those iterations performed.
RECURSIVE totalMV(_, _)
totalMV(reads, i) ==
    IF i = 0 THEN 0 ELSE totalMV(reads, i - 1) + reads[i]
RECURSIVE analogReadCount(_)
analogReadCount(i) ==
    IF i = 0 THEN 0 ELSE analogReadCount(i - 1) + 1

\* Mutant: the bounds check lets index IR_NUM_CHANNELS through.
readChannelMilliVoltsFrom_OffByOne(reads, channel) ==
    IF channel > IR_NUM_CHANNELS THEN [value |-> 0, nreads |-> 0]
    ELSE [value |-> (totalMV(reads, OVERSAMPLING_SAMPLES) \div OVERSAMPLING_SAMPLES) % Word16,
          nreads |-> analogReadCount(OVERSAMPLING_SAMPLES)]

\* readChannelMilliVolts() over the individual conversions: the value it
\* returns and the number of analog reads it performed.
readChannelMilliVoltsFrom(reads, channel) ==
    IF channel >= IR_NUM_CHANNELS THEN [value |-> 0, nreads |-> 0]
    ELSE [value |-> (totalMV(reads, OVERSAMPLING_SAMPLES) \div OVERSAMPLING_SAMPLES) % Word16,
          nreads |-> analogReadCount(OVERSAMPLING_SAMPLES)]

\* getChannelData(): the channel's snapshot, or the null pointer.
getChannelData(channel) ==
    IF channel >= IR_NUM_CHANNELS THEN [null |-> TRUE]
    ELSE [null |-> FALSE,
          rawMilliVolts |-> rawMilliVolts[channel],
          baseline |-> baseline[channel],
          deviation |-> deviation[channel],
          isSpike |-> isSpike[channel],
          lastSpikeTime |-> lastSpikeTime[channel]]

\* Mutant: the two weights are exchanged.
emaBaseline_Swapped(raw, base) ==
    (100 - EMA_ALPHA_PERCENT) * raw * (FixedScale \div 100)
        + MulPercent(EMA_ALPHA_PERCENT, base)

\* Mutant: the step moves the baseline away from the reading.
emaBaseline_SignFlipped(raw, base) ==
    MulPercent(100 + EMA_ALPHA_PERCENT, base)
        - EMA_ALPHA_PERCENT * raw * (FixedScale \div 100)

\* Mutant: the baseline does not follow the reading.
emaBaseline_Frozen(raw, base) == base

\* baseline = EMA_ALPHA * raw + (1.0f - EMA_ALPHA) * baseline
emaBaseline(raw, base) ==
    EMA_ALPHA_PERCENT * raw * (FixedScale \div 100)
        + MulPercent(100 - EMA_ALPHA_PERCENT, base)

channelDeviation(raw, base) == raw * FixedScale - base

\* Mutant: a deviation equal to the margin counts as a spike.
channelIsSpike_Inclusive(dev, margin) == dev >= margin * FixedScale

channelIsSpike(dev, margin) == dev > margin * FixedScale

\* Mutant: the deviation is taken against the baseline of the cycle before.
updateBaselines_StaleDeviation(raw, base, margin) ==
    [i \in Channels |->
        LET b == emaBaseline(raw[i], base[i])
            d == channelDeviation(raw[i], base[i])
        IN [baseline |-> b, deviation |-> d, isSpike |-> channelIsSpike(d, margin)]]

\* updateBaselines(): per channel the new baseline, then the deviation from
\* it, then the spike flag.
updateBaselines(raw, base, margin) ==
    [i \in Channels |->
        LET b == emaBaseline(raw[i], base[i])
            d == channelDeviation(raw[i], b)
        IN [baseline |-> b, deviation |-> d, isSpike |-> channelIsSpike(d, margin)]]

countActiveSpikes(spk) == Cardinality({i \in Channels : spk[i]})

areChannelsAdjacent(ch1, ch2) ==
    /\ ch1 < IR_NUM_CHANNELS
    /\ ch2 < IR_NUM_CHANNELS
    /\ (ch1 - ch2 = 1 \/ ch2 - ch1 = 1)

\* Mutant: the adjacency loop stops one pair short.
isPointSource_ShortLoop(spk) ==
    LET spikeCount == countActiveSpikes(spk) IN
    IF spikeCount = 1 THEN TRUE
    ELSE IF spikeCount = 2
         THEN \E i \in 0 .. (IR_NUM_CHANNELS - 3) : spk[i] /\ spk[i + 1]
         ELSE FALSE

isPointSource(spk) ==
    LET spikeCount == countActiveSpikes(spk) IN
    IF spikeCount = 1 THEN TRUE
    ELSE IF spikeCount = 2
         THEN \E i \in 0 .. (IR_NUM_CHANNELS - 2) : spk[i] /\ spk[i + 1]
         ELSE FALSE

\* Mutant: "more than AMBIENT_INTERFERENCE_MIN" instead of "at least".
isAmbientInterference_Strict(spk) == countActiveSpikes(spk) > AMBIENT_INTERFERENCE_MIN

isAmbientInterference(spk) == countActiveSpikes(spk) >= AMBIENT_INTERFERENCE_MIN

\* Mutant: a lost spike leaves the timestamp as it was.
evaluateSpatialPattern_KeepStart(spk, state, start, t) ==
    IF countActiveSpikes(spk) = 0
    THEN IF state = FLAME_POTENTIAL
         THEN [state |-> FLAME_IDLE, start |-> start]
         ELSE [state |-> state, start |-> start]
    ELSE IF isAmbientInterference(spk)
    THEN [state |-> FLAME_AMBIENT_INTERFERENCE, start |-> 0]
    ELSE IF isPointSource(spk)
    THEN [state |-> FLAME_POTENTIAL, start |-> IF start = 0 THEN t ELSE start]
    ELSE [state |-> state, start |-> start]

\* Mutant: no spike returns every state to idle.
evaluateSpatialPattern_IdleAlways(spk, state, start, t) ==
    IF countActiveSpikes(spk) = 0
    THEN [state |-> FLAME_IDLE, start |-> 0]
    ELSE IF isAmbientInterference(spk)
    THEN [state |-> FLAME_AMBIENT_INTERFERENCE, start |-> 0]
    ELSE IF isPointSource(spk)
    THEN [state |-> FLAME_POTENTIAL, start |-> IF start = 0 THEN t ELSE start]
    ELSE [state |-> state, start |-> start]

\* Mutant: every point-source cycle stamps the timestamp anew.
evaluateSpatialPattern_Restamp(spk, state, start, t) ==
    IF countActiveSpikes(spk) = 0
    THEN IF state = FLAME_POTENTIAL
         THEN [state |-> FLAME_IDLE, start |-> 0]
         ELSE [state |-> state, start |-> start]
    ELSE IF isAmbientInterference(spk)
    THEN [state |-> FLAME_AMBIENT_INTERFERENCE, start |-> 0]
    ELSE IF isPointSource(spk)
    THEN [state |-> FLAME_POTENTIAL, start |-> t]
    ELSE [state |-> state, start |-> start]

\* Mutant: the ambient branch keeps the timestamp.
evaluateSpatialPattern_AmbientKeepsStart(spk, state, start, t) ==
    IF countActiveSpikes(spk) = 0
    THEN IF state = FLAME_POTENTIAL
         THEN [state |-> FLAME_IDLE, start |-> 0]
         ELSE [state |-> state, start |-> start]
    ELSE IF isAmbientInterference(spk)
    THEN [state |-> FLAME_AMBIENT_INTERFERENCE, start |-> start]
    ELSE IF isPointSource(spk)
    THEN [state |-> FLAME_POTENTIAL, start |-> IF start = 0 THEN t ELSE start]
    ELSE [state |-> state, start |-> start]

\* The state and the timestamp evaluateSpatialPattern leaves; t is millis().
evaluateSpatialPattern(spk, state, start, t) ==
    IF countActiveSpikes(spk) = 0
    THEN IF state = FLAME_POTENTIAL
         THEN [state |-> FLAME_IDLE, start |-> 0]
         ELSE [state |-> state, start |-> start]
    ELSE IF isAmbientInterference(spk)
    THEN [state |-> FLAME_AMBIENT_INTERFERENCE, start |-> 0]
    ELSE IF isPointSource(spk)
    THEN [state |-> FLAME_POTENTIAL, start |-> IF start = 0 THEN t ELSE start]
    ELSE [state |-> state, start |-> start]

\* Mutant: "longer than the threshold" instead of "at least".
evaluateTemporal_Strict(state, start, t) ==
    IF state = FLAME_POTENTIAL /\ ElapsedAtLeast(t, start, TEMPORAL_VERIFICATION_MS + 1)
    THEN FLAME_DETECTED
    ELSE state

\* The state evaluateTemporal leaves; t is millis().
evaluateTemporal(state, start, t) ==
    IF state = FLAME_POTENTIAL /\ ElapsedAtLeast(t, start, TEMPORAL_VERIFICATION_MS)
    THEN FLAME_DETECTED
    ELSE state

\* Mutant: no rate gate; every call executes a cycle.
updateGated_Off(now, last) == FALSE

\* Mutant: the gate also holds back a call exactly at the interval.
updateGated_Inclusive(now, last) ==
    ~ElapsedAtLeast(now, last, FLAME_DETECTION_UPDATE_MS + 1)

\* The rate gate of update(): TRUE when the call returns at once.
updateGated(now, last) == ~ElapsedAtLeast(now, last, FLAME_DETECTION_UPDATE_MS)

isFlameDetected == currentState = FLAME_DETECTED

----------------------------------------------------------------------------
(* Initial state: the constructor, at boot, under any of the readings *)

NoProbe == [channel |-> 0, level |-> 0, high |-> 0,
            value |-> 0, nreads |-> 0, data |-> [null |-> TRUE]]

NoCycle == [k |-> 0, ps |-> FALSE, amb |-> FALSE,
            pre |-> FLAME_IDLE, preStart |-> 0, mid |-> FLAME_IDLE,
            post |-> FLAME_IDLE]

Init ==
    /\ clock = 0
    /\ adc \in ReadingVectors
    /\ rawMilliVolts = [i \in Channels |-> 0]
    /\ baseline = [i \in Channels |-> 0]
    /\ deviation = [i \in Channels |-> 0]
    /\ isSpike = [i \in Channels |-> FALSE]
    /\ lastSpikeTime = [i \in Channels |-> 0]
    /\ currentState = FLAME_IDLE
    /\ potentialFlameStartTime = 0
    /\ sensitivityMargin = SENSITIVITY_MARGIN
    /\ lastUpdateTime = 0
    /\ lastOp = "init"
    /\ cyc = NoCycle
    /\ streak = FALSE
    /\ dropAt = -1
    /\ held = FALSE
    /\ cycles = 0
    /\ changes = 0
    /\ calls = 0
    /\ marginArg = -1
    /\ probe = NoProbe
    /\ peak = [i \in Channels |-> 0]

----------------------------------------------------------------------------
(* The detector's public operations. The host loop calls update() once per *)
(* iteration; d is the time the rest of the iteration took.                *)

\* update(), called before the minimum interval has elapsed.
UpdateGated ==
    \E d \in Ticks :
        /\ clock + d <= MaxTime
        /\ updateGated(clock + d, lastUpdateTime)
        /\ clock' = clock + d
        /\ lastOp' = "gated"
        /\ UNCHANGED <<adc, detector, history, changes, calls, queries>>

\* The body of update() past the rate gate: now is the millis() of the gate,
\* v the pin levels during sampling, ab the clock time sampling takes and the
\* time between the two later readings of millis().
update(now, v, ab) ==
    LET a == ab[1]
        b == ab[2]
        raw == [i \in Channels |-> readChannelMilliVolts(v, i)]
        ch == updateBaselines(raw, baseline, sensitivityMargin)
        spk == [i \in Channels |-> ch[i].isSpike]
        tSpatial == now + a
        tTemp == tSpatial + b
        sp == evaluateSpatialPattern(spk, currentState,
                                     potentialFlameStartTime, tSpatial)
        final == evaluateTemporal(sp.state, sp.start, tTemp)
        k == countActiveSpikes(spk)
    IN
    /\ adc' = v
    /\ changes' = IF v = adc THEN changes ELSE changes + 1
    /\ lastUpdateTime' = now
    /\ rawMilliVolts' = raw
    /\ baseline' = [i \in Channels |-> ch[i].baseline]
    /\ deviation' = [i \in Channels |-> ch[i].deviation]
    /\ isSpike' = spk
    /\ currentState' = final
    /\ potentialFlameStartTime' = sp.start
    /\ clock' = tTemp
    /\ lastOp' = "update"
    /\ cyc' = [k |-> k, ps |-> isPointSource(spk), amb |-> isAmbientInterference(spk),
               pre |-> currentState, preStart |-> potentialFlameStartTime,
               mid |-> sp.state, post |-> final]
    /\ streak' = IF sp.start = 0 THEN FALSE
                 ELSE IF potentialFlameStartTime = 0 THEN TRUE
                 ELSE streak /\ isPointSource(spk)
    /\ dropAt' = IF currentState = FLAME_POTENTIAL /\ k = 0 THEN now ELSE dropAt
    /\ held' = ((k = IR_NUM_CHANNELS /\ currentState # FLAME_DETECTED)
                    \/ (held /\ v = adc))
    /\ cycles' = cycles + 1
    /\ peak' = [i \in Channels |-> IF raw[i] > peak[i] THEN raw[i] ELSE peak[i]]
    /\ UNCHANGED <<lastSpikeTime, sensitivityMargin, calls, queries>>

\* update(), executing a full cycle.
UpdateCycle ==
    \E d \in Ticks, v \in ReadingVectors, ab \in Delays :
        /\ clock + d <= MaxTime
        /\ ~updateGated(clock + d, lastUpdateTime)
        /\ cycles < MaxCycles
        /\ v = adc \/ changes + calls < MaxEvents
        /\ update(clock + d, v, ab)

\* Mutant: the setter validates its argument against the ADC range.
setSensitivityMargin_Clamped ==
    \E margin \in Margins :
        /\ changes + calls < MaxEvents
        /\ sensitivityMargin' = IF margin > 3300 THEN 3300 ELSE margin
        /\ marginArg' = margin
        /\ calls' = calls + 1
        /\ held' = FALSE
        /\ lastOp' = "margin"
        /\ UNCHANGED <<clock, adc, rawMilliVolts, baseline, deviation, isSpike,
                       lastSpikeTime, currentState, potentialFlameStartTime,
                       lastUpdateTime, cyc, streak, dropAt, cycles, changes, probe,
                       peak>>

setSensitivityMargin ==
    \E margin \in Margins :
        /\ changes + calls < MaxEvents
        /\ sensitivityMargin' = margin
        /\ marginArg' = margin
        /\ calls' = calls + 1
        /\ held' = FALSE
        /\ lastOp' = "margin"
        /\ UNCHANGED <<clock, adc, rawMilliVolts, baseline, deviation, isSpike,
                       lastSpikeTime, currentState, potentialFlameStartTime,
                       lastUpdateTime, cyc, streak, dropAt, cycles, changes, probe,
                       peak>>

\* Mutant: the spike flags survive the reset.
resetFields_KeepSpikes ==
    /\ baseline' = [i \in Channels |-> 0]
    /\ lastSpikeTime' = [i \in Channels |-> 0]
    /\ currentState' = FLAME_IDLE
    /\ potentialFlameStartTime' = 0
    /\ UNCHANGED <<rawMilliVolts, deviation, isSpike, sensitivityMargin, lastUpdateTime>>

\* Mutant: the reset re-initialises like the constructor, rate gate included.
resetFields_Reinit ==
    /\ baseline' = [i \in Channels |-> 0]
    /\ isSpike' = [i \in Channels |-> FALSE]
    /\ lastSpikeTime' = [i \in Channels |-> 0]
    /\ currentState' = FLAME_IDLE
    /\ potentialFlameStartTime' = 0
    /\ lastUpdateTime' = 0
    /\ UNCHANGED <<rawMilliVolts, deviation, sensitivityMargin>>

\* The assignments of resetBaselines(), and the fields it does not name.
resetFields ==
    /\ baseline' = [i \in Channels |-> 0]
    /\ isSpike' = [i \in Channels |-> FALSE]
    /\ lastSpikeTime' = [i \in Channels |-> 0]
    /\ currentState' = FLAME_IDLE
    /\ potentialFlameStartTime' = 0
    /\ UNCHANGED <<rawMilliVolts, deviation, sensitivityMargin, lastUpdateTime>>

\* resetBaselines(); a reset that directly follows a setSensitivityMargin is
\* explored whatever the event bound.
resetBaselines ==
    /\ changes + calls < MaxEvents \/ lastOp = "margin"
    /\ resetFields
    /\ calls' = calls + 1
    /\ streak' = FALSE
    /\ held' = FALSE
    /\ lastOp' = "reset"
    /\ peak' = [i \in Channels |-> 0]
    /\ UNCHANGED <<clock, adc, cyc, dropAt, cycles, changes, queries>>

\* resetBaselines() called a second time, at once after the first.
resetBaselinesAgain ==
    /\ lastOp = "reset"
    /\ changes + calls >= MaxEvents
    /\ resetFields
    /\ streak' = FALSE
    /\ held' = FALSE
    /\ lastOp' = "reset again"
    /\ peak' = [i \in Channels |-> 0]
    /\ UNCHANGED <<clock, adc, cyc, dropAt, cycles, changes, calls, queries>>

Next ==
    \/ UpdateGated
    \/ UpdateCycle
    \/ setSensitivityMargin
    \/ resetBaselines
    \/ resetBaselinesAgain

Spec == Init /\ [][Next]_vars

----------------------------------------------------------------------------
(* The spatial classification as a function of the spike flags: every set  *)
(* of spiking channels, under every state, classified once.                *)

InitPattern ==
    /\ clock = FLAME_DETECTION_UPDATE_MS
    /\ adc = Levels(0, 0, 0, 0, 0)
    /\ rawMilliVolts = [i \in Channels |-> 0]
    /\ baseline = [i \in Channels |-> 0]
    /\ deviation = [i \in Channels |-> 0]
    /\ isSpike \in [Channels -> BOOLEAN]
    /\ lastSpikeTime = [i \in Channels |-> 0]
    /\ currentState \in FlameDetectionState
    /\ potentialFlameStartTime =
           IF currentState \in {FLAME_POTENTIAL, FLAME_DETECTED}
           THEN FLAME_DETECTION_UPDATE_MS
           ELSE 0
    /\ sensitivityMargin = SENSITIVITY_MARGIN
    /\ lastUpdateTime = 0
    /\ lastOp = "init"
    /\ cyc = NoCycle
    /\ streak = FALSE
    /\ dropAt = -1
    /\ held = FALSE
    /\ cycles = 0
    /\ changes = 0
    /\ calls = 0
    /\ marginArg = -1
    /\ probe = NoProbe
    /\ peak = [i \in Channels |-> 0]

Classify ==
    LET sp == evaluateSpatialPattern(isSpike, currentState,
                                     potentialFlameStartTime, clock)
    IN
    /\ lastOp = "init"
    /\ currentState' = sp.state
    /\ potentialFlameStartTime' = sp.start
    /\ cyc' = [k |-> countActiveSpikes(isSpike), ps |-> isPointSource(isSpike),
               amb |-> isAmbientInterference(isSpike),
               pre |-> currentState, preStart |-> potentialFlameStartTime,
               mid |-> sp.state, post |-> sp.state]
    /\ lastOp' = "classify"
    /\ UNCHANGED <<clock, adc, rawMilliVolts, baseline, deviation, isSpike,
                   lastSpikeTime, sensitivityMargin, lastUpdateTime,
                   streak, dropAt, held, cycles, changes, calls, queries, peak>>

NextPattern == Classify

SpecPattern == InitPattern /\ [][NextPattern]_vars

----------------------------------------------------------------------------
(* Scenario B: a fresh detector, channel 2 held at 1000 mV and the others  *)
(* at 0, update() executed every 50 ms; the host loop may also call it in  *)
(* between, where the rate gate returns at once.                           *)

ZeroReadings == Levels(0, 0, 0, 0, 0)
ScenarioBReadings == Levels(0, 0, 1000, 0, 0)

InitScenarioB == Init /\ adc = ScenarioBReadings

PollEarly ==
    \E d \in EarlyTicks :
        /\ updateGated(clock + d, lastUpdateTime)
        /\ clock' = clock + d
        /\ lastOp' = "gated"
        /\ UNCHANGED <<adc, detector, history, changes, calls, queries>>

PollOnTime ==
    \E ab \in Delays :
        /\ cycles < MaxScenarioCycles
        /\ ~updateGated(lastUpdateTime + FLAME_DETECTION_UPDATE_MS, lastUpdateTime)
        /\ update(lastUpdateTime + FLAME_DETECTION_UPDATE_MS, adc, ab)

NextScenarioB == PollEarly \/ PollOnTime

SpecScenarioB == InitScenarioB /\ [][NextScenarioB]_vars

----------------------------------------------------------------------------
(* Single-channel queries: the sampler and the snapshot accessor called    *)
(* with any index a uint8_t can carry, before or after the first cycle.    *)

\* The first executed update, 50 ms after boot.
SampleOnce ==
    \E ab \in Delays :
        /\ cycles = 0
        /\ update(FLAME_DETECTION_UPDATE_MS, adc, ab)

QueryChannel ==
    \E channel \in ProbeChannels, level \in ProbeLevels, high \in HighReads :
        LET r == readChannelMilliVoltsFrom(analogReads(level, high), channel)
        IN
        /\ probe = NoProbe
        /\ probe' = [channel |-> channel, level |-> level, high |-> high,
                     value |-> r.value, nreads |-> r.nreads,
                     data |-> getChannelData(channel)]
        /\ lastOp' = "probe"
        /\ UNCHANGED <<clock, adc, detector, history, changes, calls, marginArg>>

NextSampler == SampleOnce \/ QueryChannel

SpecSampler == Init /\ [][NextSampler]_vars

----------------------------------------------------------------------------
(* Absorption: a fresh detector under the default margin or the smallest   *)
(* positive one, readings that may change during the first cycles and are  *)
(* held from then on, update() executed every 50 ms without end (up to the *)
(* cycle bound).                                                           *)

\* The readings used here: dark, scenario B, and one strong channel over
\* four weak ones.
AbsorbReadings ==
    {Levels(0, 0, 0, 0, 0), Levels(0, 0, 1000, 0, 0), Levels(3300, 304, 304, 304, 304)}

InitAbsorb == Init /\ adc = ZeroReadings

SetMarginAtBoot ==
    \E margin \in PositiveMargins :
        /\ cycles = 0
        /\ marginArg = -1
        /\ sensitivityMargin' = margin
        /\ marginArg' = margin
        /\ calls' = calls + 1
        /\ held' = FALSE
        /\ lastOp' = "margin"
        /\ UNCHANGED <<clock, adc, rawMilliVolts, baseline, deviation, isSpike,
                       lastSpikeTime, currentState, potentialFlameStartTime,
                       lastUpdateTime, cyc, streak, dropAt, cycles, changes, probe,
                       peak>>

PollHeld ==
    \E v \in AbsorbReadings :
        /\ cycles < MaxAbsorbCycles
        /\ cycles < WarmCycles \/ v = adc
        /\ update(lastUpdateTime + FLAME_DETECTION_UPDATE_MS, v, <<3, 0>>)

NextAbsorb == SetMarginAtBoot \/ PollHeld

SpecAbsorb == InitAbsorb /\ [][NextAbsorb]_vars /\ WF_vars(PollHeld)

\* The same schedule from a fresh detector under each of the readings, held.
SpecHeldReadings == Init /\ [][NextScenarioB]_vars

----------------------------------------------------------------------------
(* Properties *)

\* What the last executed cycle was, read from the spike flags it left.
SpikeSet == {i \in Channels : isSpike[i]}
SpikeCount == Cardinality(SpikeSet)
AdjacentPair == \E i \in SpikeSet, j \in SpikeSet : i - j = 1
PointSourcePattern == SpikeCount = 1 \/ (SpikeCount = 2 /\ AdjacentPair)
AmbiguousPattern == SpikeCount = 3 \/ (SpikeCount = 2 /\ ~AdjacentPair)
AfterCycle == lastOp = "update"
\* Right after a cycle the clock still shows the millis() of evaluateTemporal.
Elapsed == clock - potentialFlameStartTime
BecameDetected ==
    AfterCycle /\ cyc.pre # FLAME_DETECTED /\ currentState = FLAME_DETECTED

\* C1: in every executed cycle whose spatial evaluation leaves Potential, the
\* cycle ends Detected iff millis() minus potentialFlameStartTime is at least
\* 500 ms, and ends Potential otherwise; so the state never becomes Detected
\* with less than 500 ms elapsed since a timestamp that was stamped.
C1_TemporalThreshold ==
    /\ (AfterCycle /\ cyc.mid = FLAME_POTENTIAL) =>
           /\ currentState = FLAME_DETECTED <=> Elapsed >= 500
           /\ Elapsed <= 499 => currentState = FLAME_POTENTIAL
    /\ BecameDetected => (potentialFlameStartTime # 0 /\ Elapsed >= 500)

\* C1 witness: a cycle that ends Detected with exactly 500 ms elapsed.
C1_Witness ==
    /\ AfterCycle
    /\ cyc.pre = FLAME_POTENTIAL
    /\ currentState = FLAME_DETECTED
    /\ Elapsed = 500

\* C1, the other side of the threshold: 499 ms elapsed, still Potential.
C1_WitnessBelow ==
    /\ AfterCycle
    /\ cyc.pre = FLAME_POTENTIAL
    /\ currentState = FLAME_POTENTIAL
    /\ Elapsed = 499

\* C2: whenever a cycle moves the state into Detected, every executed cycle
\* since the one that stamped potentialFlameStartTime (inclusive) was a point
\* source (k = 1, or k = 2 adjacent).
C2_ContinuousPointSource == BecameDetected => streak

\* C3: a cycle with k = 0 in state Potential ends Idle with the timestamp unset,
\* and any Detected after it rests on a timestamp stamped after that cycle, with
\* at least 500 ms elapsed since that new timestamp.
C3_DropRestartsWindow ==
    /\ (AfterCycle /\ cyc.pre = FLAME_POTENTIAL /\ cyc.k = 0) =>
           (currentState = FLAME_IDLE /\ potentialFlameStartTime = 0)
    /\ (BecameDetected /\ dropAt >= 0) =>
           /\ potentialFlameStartTime > dropAt
           /\ Elapsed >= 500

\* C3 witness: Detected reached after an earlier window was dropped.
C3_Witness == BecameDetected /\ dropAt >= 0 /\ SpikeCount >= 1

\* C4: every executed cycle with k >= 4 ends in AmbientInterference with the
\* timestamp unset, whatever the state before.
C4_AmbientOverrides ==
    (AfterCycle /\ SpikeCount >= 4) =>
        (currentState = FLAME_AMBIENT_INTERFERENCE /\ potentialFlameStartTime = 0)

\* C4 witness: a cycle with k >= 4 that found the state Detected.
C4_Witness ==
    /\ AfterCycle
    /\ SpikeCount >= 4
    /\ cyc.pre = FLAME_DETECTED
    /\ cyc.preStart # 0

\* C4, the other prior states.
C4_WitnessFromPotential == AfterCycle /\ SpikeCount >= 4 /\ cyc.pre = FLAME_POTENTIAL
C4_WitnessFromAmbient ==
    AfterCycle /\ SpikeCount >= 4 /\ cyc.pre = FLAME_AMBIENT_INTERFERENCE
C4_WitnessFromIdle == AfterCycle /\ SpikeCount >= 4 /\ cyc.pre = FLAME_IDLE

\* C5: once a cycle from a non-Detected state has all 5 channels spiking, that
\* cycle ends in AmbientInterference, and while every reading is held at its
\* level no later cycle ends Detected.
C5_HeldAmbientNeverDetected ==
    /\ (AfterCycle /\ SpikeCount = IR_NUM_CHANNELS /\ cyc.pre # FLAME_DETECTED) =>
           currentState = FLAME_AMBIENT_INTERFERENCE
    /\ held => currentState # FLAME_DETECTED

\* C6: k = 0 is neither point source nor ambient; k = 1 is a point source;
\* k = 2 is a point source iff the two indices differ by 1; k = 3 is neither;
\* k >= 4 is ambient and no point source; never both.
C6_Classification ==
    lastOp = "classify" =>
        /\ cyc.k = SpikeCount
        /\ SpikeCount = 0 => (~cyc.ps /\ ~cyc.amb)
        /\ SpikeCount = 1 => cyc.ps
        /\ SpikeCount = 2 => (cyc.ps <=> AdjacentPair)
        /\ SpikeCount = 3 => (~cyc.ps /\ ~cyc.amb)
        /\ SpikeCount >= 4 => (cyc.amb /\ ~cyc.ps)
        /\ ~(cyc.ps /\ cyc.amb)

\* C6 witness: the last two channels spiking, classified as a point source.
C6_Witness ==
    /\ lastOp = "classify"
    /\ SpikeSet = {IR_NUM_CHANNELS - 2, IR_NUM_CHANNELS - 1}
    /\ cyc.ps

\* C6, a pair that is not adjacent.
C6_WitnessApart == lastOp = "classify" /\ SpikeSet = {1, 3} /\ ~cyc.ps /\ ~cyc.amb

\* C7: an executed cycle with k = 3, or k = 2 not adjacent, ends in the state
\* it started in.
C7_AmbiguousKeepsState ==
    (AfterCycle /\ AmbiguousPattern) => currentState = cyc.pre

\* C8: an executed cycle with k = 0 ends Idle with the timestamp unset when it
\* started in Potential, and leaves state and timestamp as they were otherwise.
C8_NoSpikeCycle ==
    (AfterCycle /\ SpikeCount = 0) =>
        IF cyc.pre = FLAME_POTENTIAL
        THEN currentState = FLAME_IDLE /\ potentialFlameStartTime = 0
        ELSE currentState = cyc.pre /\ potentialFlameStartTime = cyc.preStart

\* C8 witness: a cycle with k = 0 that found the state Detected and left it.
C8_Witness ==
    /\ AfterCycle
    /\ SpikeCount = 0
    /\ cyc.pre = FLAME_DETECTED
    /\ currentState = FLAME_DETECTED

\* C8, the other prior states.
C8_WitnessFromPotential == AfterCycle /\ SpikeCount = 0 /\ cyc.pre = FLAME_POTENTIAL
C8_WitnessFromAmbient ==
    AfterCycle /\ SpikeCount = 0 /\ cyc.pre = FLAME_AMBIENT_INTERFERENCE

\* C9: Detected is latched: the state leaves Detected only in resetBaselines or
\* in an executed cycle with k >= 4, which ends in AmbientInterference; a cycle
\* with k = 0, an ambiguous or a point-source pattern leaves it Detected.
C9_DetectedLatched ==
    [][(currentState = FLAME_DETECTED /\ currentState' # FLAME_DETECTED) =>
           \/ lastOp' = "reset"
           \/ /\ lastOp' = "update"
              /\ cyc'.k >= AMBIENT_INTERFERENCE_MIN
              /\ currentState' = FLAME_AMBIENT_INTERFERENCE]_vars

\* C9 witness: a point-source cycle that found the state Detected.
C9_Witness ==
    /\ AfterCycle
    /\ cyc.pre = FLAME_DETECTED
    /\ PointSourcePattern
    /\ isFlameDetected

\* C9, the ways out and the other patterns.
C9_WitnessAmbiguous ==
    AfterCycle /\ cyc.pre = FLAME_DETECTED /\ AmbiguousPattern /\ isFlameDetected
C9_WitnessReset ==
    lastOp = "reset" /\ cyc.post = FLAME_DETECTED /\ currentState = FLAME_IDLE

\* C10: a call of update less than 50 ms after lastUpdateTime reads nothing and
\* leaves every field as it was; any other call executes a cycle and sets
\* lastUpdateTime to the time of the call; two executed cycles are at least
\* 50 ms apart.
C10_RateGate ==
    [][/\ lastOp' = "gated" =>
              /\ clock' - lastUpdateTime < 50
              /\ UNCHANGED <<adc, detector>>
       /\ lastOp' = "update" =>
              /\ \E d \in Ticks : lastUpdateTime' = clock + d
              /\ lastUpdateTime' - lastUpdateTime >= 50
              /\ cycles' = cycles + 1
      ]_vars

\* C10 witness: a call 49 ms after an executed cycle, gated out.
C10_Witness ==
    /\ lastOp = "gated"
    /\ cycles >= 1
    /\ clock - lastUpdateTime = 49

\* C10, the first 50 ms of the clock.
C10_WitnessBoot == lastOp = "gated" /\ cycles = 0 /\ clock < 50

\* C11: in every reachable state potentialFlameStartTime is 0 (unset)
\* whenever currentState is not Potential.
C11_StartUnsetOutsidePotential ==
    currentState # FLAME_POTENTIAL => potentialFlameStartTime = 0

\* C12: resetBaselines leaves all five baselines 0, all spike flags false,
\* the state Idle and potentialFlameStartTime 0, from whatever state it is
\* called in; called a second time at once, it leaves every field of the
\* detector exactly as the first call left it.
ResetOps == {"reset", "reset again"}
C12_ResetIdempotent ==
    [][/\ lastOp' \in ResetOps =>
              /\ \A i \in Channels : baseline'[i] = 0 /\ ~isSpike'[i]
              /\ currentState' = FLAME_IDLE
              /\ potentialFlameStartTime' = 0
       /\ (lastOp \in ResetOps /\ lastOp' \in ResetOps) => UNCHANGED detector
      ]_vars

\* C12 witness: the second of two resets that followed a cycle ending Detected.
C12_Witness ==
    /\ lastOp = "reset again"
    /\ cyc.post = FLAME_DETECTED
    /\ \E i \in Channels : rawMilliVolts[i] > 0 /\ deviation[i] > 0

\* C12, the first reset taken from a state with spikes and a set timestamp.
C12_WitnessFirst ==
    /\ lastOp = "reset"
    /\ cyc.post = FLAME_POTENTIAL
    /\ cyc.k > 0

\* C13 (as stated): in scenario B exactly one channel spikes in each cycle of
\* the first 500 ms, the state is Potential from the first executed update
\* while less than 500 ms have passed, and it is Detected at the end of the
\* update executed 500 ms after the first one.
SinceFirstCycle == lastUpdateTime - FLAME_DETECTION_UPDATE_MS
C13_ScenarioB ==
    AfterCycle =>
        /\ SinceFirstCycle <= 500 => SpikeCount = 1
        /\ SinceFirstCycle < 500 => currentState = FLAME_POTENTIAL
        /\ SinceFirstCycle = 500 => currentState = FLAME_DETECTED

\* C13 (amended): as above, but the update executed 500 ms after the first one
\* ends Detected only if its own reading of millis() is at least 500 ms past
\* the timestamp the first cycle stamped after sampling; if the reading falls
\* short, that update ends Potential and the next one, 50 ms later, Detected.
C13_ScenarioBJitter ==
    AfterCycle =>
        /\ SinceFirstCycle <= 500 => SpikeSet = {2}
        /\ SinceFirstCycle < 500 => currentState = FLAME_POTENTIAL
        /\ SinceFirstCycle = 500 =>
               /\ Elapsed >= 500 => currentState = FLAME_DETECTED
               /\ Elapsed < 500 => currentState = FLAME_POTENTIAL
        /\ SinceFirstCycle > 500 => currentState = FLAME_DETECTED

\* C13 witness: the update 500 ms after the first one, ending Detected.
C13_Witness ==
    /\ AfterCycle
    /\ SinceFirstCycle = 500
    /\ cyc.pre = FLAME_POTENTIAL
    /\ currentState = FLAME_DETECTED

\* C13, the late case: 499 ms on the clock at the 500 ms update, Detected at
\* the next.
C13_WitnessShort ==
    AfterCycle /\ SinceFirstCycle = 500 /\ Elapsed = 499 /\ currentState = FLAME_POTENTIAL
C13_WitnessLate ==
    /\ AfterCycle
    /\ SinceFirstCycle = 550
    /\ cyc.pre = FLAME_POTENTIAL
    /\ currentState = FLAME_DETECTED

\* C14: scenario A. While every channel has read 0 mV in every update since
\* construction, no channel is flagged as a spike, every baseline is 0 and the
\* state is Idle, after any number of updates and under any margin, 0 included.
AlwaysZero == adc = ZeroReadings /\ changes = 0
C14_ScenarioA ==
    AlwaysZero =>
        /\ \A i \in Channels : ~isSpike[i] /\ baseline[i] = 0
        /\ currentState = FLAME_IDLE

\* C14 witness: the second all-zero cycle under margin 0.
C14_Witness ==
    /\ AfterCycle
    /\ AlwaysZero
    /\ sensitivityMargin = 0
    /\ cycles >= 2

\* C14, under the default margin and to the cycle bound.
C14_WitnessDefault ==
    AfterCycle /\ AlwaysZero /\ sensitivityMargin = SENSITIVITY_MARGIN /\ cycles >= 3

\* C15: a channel fed a constant reading v from baseline 0 has, after n
\* executed updates, the baseline v * (1 - 0.99^n), to the rounding of the
\* fixed-point representation (at most 1/FixedScale mV per update); every
\* update applies baseline' = 0.01 * v + 0.99 * baseline; the baseline never
\* decreases, never exceeds v, and its distance to v shrinks by the factor
\* 0.99 with every update.
RECURSIVE Pow99(_)
\* 0.99^n in units of 10^-8.
Pow99(n) ==
    IF n = 0 THEN 100000000
    ELSE LET p == Pow99(n - 1) IN p - (p + 50) \div 100
\* v * (1 - 0.99^n) in units of 1/FixedScale mV.
ClosedFormBaseline(v, n) ==
    (v * ((100000000 - Pow99(n)) \div 100) + 5000) \div 10000
Distance(x, y) == IF x >= y THEN x - y ELSE y - x
C15_BaselineConvergence ==
    [][\A i \in Channels :
           LET v == adc'[i] * FixedScale IN
           /\ Distance(baseline'[i], ClosedFormBaseline(adc'[i], cycles')) <= cycles'
           /\ baseline'[i] >= baseline[i]
           /\ baseline'[i] <= v
           /\ lastOp' = "update" =>
                  /\ Distance(baseline'[i] * 100, adc'[i] * FixedScale + 99 * baseline[i]) <= 50
                  /\ (v - baseline'[i]) * 100 <= 99 * (v - baseline[i]) + 50
      ]_vars

\* C15 witness: ten updates into the convergence of a channel held at 3300 mV.
C15_Witness ==
    /\ AfterCycle
    /\ cycles >= 10
    /\ \E i \in Channels :
           /\ adc[i] = 3300
           /\ baseline[i] > 9 * adc[i]
           /\ baseline[i] < adc[i] * FixedScale

\* C16: at the end of every executed cycle, for every channel, the deviation
\* is the raw reading minus the baseline as that same cycle updated it, and
\* the spike flag is set iff the deviation is strictly greater than the margin
\* in force; a deviation equal to the margin is not a spike.
C16_DeviationAndSpike ==
    AfterCycle =>
        \A i \in Channels :
            /\ deviation[i] = rawMilliVolts[i] * FixedScale - baseline[i]
            /\ isSpike[i] <=> deviation[i] > sensitivityMargin * FixedScale
            /\ deviation[i] = sensitivityMargin * FixedScale => ~isSpike[i]

\* C16 witness: a cycle under margin 0 in which one channel deviates from a
\* baseline that moved in this cycle and spikes, and another has a deviation
\* equal to the margin and does not.
C16_Witness ==
    /\ AfterCycle
    /\ sensitivityMargin = 0
    /\ \E i \in Channels, j \in Channels :
           /\ deviation[i] = sensitivityMargin * FixedScale
           /\ ~isSpike[i]
           /\ baseline[j] > 0
           /\ deviation[j] > 0
           /\ isSpike[j]

\* C17: setSensitivityMargin takes any unsigned 16-bit value, 0 and 65535
\* included, and makes it the margin; it changes no other field (state,
\* timestamp, lastUpdateTime, baselines, deviations, spike flags already
\* computed); every cycle executed afterwards classifies with the new margin.
C17_SetMarginFrame ==
    [][/\ lastOp' = "margin" =>
              /\ marginArg' \in 0 .. (Word16 - 1)
              /\ sensitivityMargin' = marginArg'
              /\ UNCHANGED <<clock, rawMilliVolts, baseline, deviation, isSpike,
                             lastSpikeTime, currentState, potentialFlameStartTime,
                             lastUpdateTime>>
       /\ (lastOp' = "update" /\ marginArg # -1) =>
              \A i \in Channels :
                  isSpike'[i] <=> deviation'[i] > marginArg * FixedScale
      ]_vars

\* C17 witness: after the margin was set to 0, a cycle flags a deviation that
\* is below the default margin.
C17_Witness ==
    /\ AfterCycle
    /\ marginArg = 0
    /\ \E i \in Channels :
           isSpike[i] /\ deviation[i] < SENSITIVITY_MARGIN * FixedScale

\* C17, the upper end: under 65535 the largest reading is no spike; and a set
\* on top of flags and a timestamp that stay.
C17_WitnessMax ==
    /\ AfterCycle
    /\ marginArg = Word16 - 1
    /\ \E i \in Channels :
           /\ rawMilliVolts[i] = 3300
           /\ deviation[i] > SENSITIVITY_MARGIN * FixedScale
           /\ ~isSpike[i]
C17_WitnessKept ==
    /\ lastOp = "margin"
    /\ sensitivityMargin = Word16 - 1
    /\ currentState = FLAME_POTENTIAL
    /\ potentialFlameStartTime > 0
    /\ \E i \in Channels : isSpike[i]

\* C18: a channel index outside 0..4 changes no field of the detector; the
\* sampler returns 0 for it without a single analog read and the snapshot
\* query returns the null pointer. For an index in 0..4 the sampler performs
\* exactly 64 reads and returns their sum divided by 64, truncated, and the
\* snapshot query returns that channel's fields.
C18_ChannelIndex ==
    [][lastOp' = "probe" =>
          LET q == probe'
              sum == OVERSAMPLING_SAMPLES * q.level + q.high
          IN
          /\ UNCHANGED <<clock, adc, detector>>
          /\ q.channel \notin Channels =>
                 /\ q.value = 0
                 /\ q.nreads = 0
                 /\ q.data.null
          /\ q.channel \in Channels =>
                 /\ q.nreads = 64
                 /\ 64 * q.value <= sum
                 /\ sum < 64 * (q.value + 1)
                 /\ q.high = 0 =>
                        q.value = readChannelMilliVolts([c \in Channels |-> q.level],
                                                        q.channel)
                 /\ ~q.data.null
                 /\ q.data.rawMilliVolts = rawMilliVolts[q.channel]
                 /\ q.data.baseline = baseline[q.channel]
                 /\ q.data.isSpike = isSpike[q.channel]
      ]_vars

\* C18 witness: index 5, the first one out of range, queried after a cycle
\* while the pin level is 3300 mV.
C18_Witness ==
    /\ lastOp = "probe"
    /\ cycles >= 1
    /\ probe.channel = IR_NUM_CHANNELS
    /\ probe.level = 3300
    /\ probe.value = 0
    /\ probe.data.null

\* C18, the largest index and the truncation: 63 of 64 reads one millivolt up.
C18_WitnessMaxIndex == lastOp = "probe" /\ probe.channel = 255 /\ probe.nreads = 0
C18_WitnessTruncated ==
    /\ lastOp = "probe"
    /\ probe.channel = IR_NUM_CHANNELS - 1
    /\ probe.high = 63
    /\ probe.level = 1000
    /\ probe.value = 1000
    /\ probe.nreads = 64
    /\ ~probe.data.null

\* C19: resetBaselines leaves the margin, lastUpdateTime and the raw readings
\* as they were; the update calls that follow a reset are gated against the
\* lastUpdateTime of the last executed cycle (skipped below 50 ms, executed
\* from 50 ms on), and the next executed cycle classifies with the margin
\* that was in force before the reset.
C19_ResetKeepsMarginAndGate ==
    [][/\ lastOp' \in ResetOps =>
              UNCHANGED <<sensitivityMargin, lastUpdateTime, rawMilliVolts>>
       /\ (lastOp \in ResetOps /\ lastOp' = "gated") =>
              /\ clock' - lastUpdateTime < FLAME_DETECTION_UPDATE_MS
              /\ UNCHANGED detector
       /\ (lastOp \in ResetOps /\ lastOp' = "update") =>
              /\ lastUpdateTime' - lastUpdateTime >= FLAME_DETECTION_UPDATE_MS
              /\ \A i \in Channels :
                     isSpike'[i] <=> deviation'[i] > sensitivityMargin * FixedScale
      ]_vars

\* A reset was called after the last executed cycle: the readings of that
\* cycle are still there and the baselines are gone.
ResetSinceCycle ==
    /\ cycles >= 1
    /\ \A i \in Channels : baseline[i] = 0
    /\ \E i \in Channels : rawMilliVolts[i] > 0

\* C19 witness: an update call 49 ms after the last executed cycle, skipped,
\* with a reset in between.
C19_Witness ==
    /\ lastOp = "gated"
    /\ ResetSinceCycle
    /\ clock - lastUpdateTime = 49

\* C19, the margin: set to 0, then a reset, then cycles that flag a deviation
\* the default margin would not.
C19_WitnessMargin ==
    /\ AfterCycle
    /\ marginArg = 0
    /\ calls >= 2
    /\ \E i \in Channels :
           isSpike[i] /\ deviation[i] < SENSITIVITY_MARGIN * FixedScale

\* C20: in every reachable state, Idle or AmbientInterference implies that
\* potentialFlameStartTime is 0; so a point-source cycle that finds one of
\* these states stamps a timestamp read in that very cycle and ends Potential,
\* not Detected.
C20_QuietStatesUnstamped ==
    /\ currentState \in {FLAME_IDLE, FLAME_AMBIENT_INTERFERENCE} =>
           potentialFlameStartTime = 0
    /\ (AfterCycle /\ cyc.pre \in {FLAME_IDLE, FLAME_AMBIENT_INTERFERENCE} /\ cyc.ps) =>
           /\ cyc.preStart = 0
           /\ potentialFlameStartTime > lastUpdateTime
           /\ potentialFlameStartTime <= clock
           /\ currentState = FLAME_POTENTIAL

\* C20 witness: a point-source cycle that found AmbientInterference, long after
\* an earlier timestamp had been stamped and cleared.
C20_Witness ==
    /\ AfterCycle
    /\ cyc.pre = FLAME_AMBIENT_INTERFERENCE
    /\ PointSourcePattern
    /\ currentState = FLAME_POTENTIAL
    /\ cycles >= 3
    /\ clock > TEMPORAL_VERIFICATION_MS

\* C20, from Idle after a reset out of Detected.
C20_WitnessIdle ==
    /\ AfterCycle
    /\ cyc.pre = FLAME_IDLE
    /\ PointSourcePattern
    /\ currentState = FLAME_POTENTIAL
    /\ calls >= 1
    /\ clock > TEMPORAL_VERIFICATION_MS

\* C21: with the clock starting at 0 and not wrapping, whenever the state is
\* Potential at the end of an executed update the timestamp is set (not 0),
\* and evaluateTemporal never sees Potential with the timestamp 0; no cycle
\* is executed before the clock has reached 50 ms, so every stamp is a
\* millis() reading of at least 50.
C21_PotentialIsStamped ==
    /\ currentState = FLAME_POTENTIAL => potentialFlameStartTime # 0
    /\ AfterCycle =>
           /\ lastUpdateTime >= FLAME_DETECTION_UPDATE_MS
           /\ cyc.mid = FLAME_POTENTIAL =>
                  potentialFlameStartTime >= FLAME_DETECTION_UPDATE_MS
           /\ (currentState = FLAME_DETECTED /\ cyc.pre # FLAME_DETECTED) =>
                  potentialFlameStartTime # 0

\* C21 witness: the first executed cycle, a point source, ends Potential with
\* the timestamp it stamped.
C21_Witness ==
    /\ AfterCycle
    /\ cycles = 1
    /\ cyc.preStart = 0
    /\ currentState = FLAME_POTENTIAL
    /\ potentialFlameStartTime > lastUpdateTime

\* C21, late in the run: Potential more than 500 ms after boot, where a zero
\* timestamp would have been confirmed at once.
C21_WitnessLate ==
    /\ AfterCycle
    /\ cyc.preStart = 0
    /\ currentState = FLAME_POTENTIAL
    /\ clock >= TEMPORAL_VERIFICATION_MS

\* C22: in every reachable state each baseline lies between 0 and the largest
\* raw reading its channel has had since construction or the last reset; an
\* executed cycle moves each baseline to a value between the baseline before
\* and the reading of that cycle; resetBaselines sets it to 0; a gated-out
\* update and setSensitivityMargin leave it as it was.
Between(x, lo, hi) == lo <= x /\ x <= hi
Lesser(x, y) == IF x <= y THEN x ELSE y
Greater(x, y) == IF x >= y THEN x ELSE y
C22_BaselineBounded ==
    [][\A i \in Channels :
           LET reading == rawMilliVolts'[i] * FixedScale IN
           /\ Between(baseline[i], 0, peak[i] * FixedScale)
           /\ Between(baseline'[i], 0, peak'[i] * FixedScale)
           /\ lastOp' = "update" =>
                  Between(baseline'[i], Lesser(baseline[i], reading),
                                        Greater(baseline[i], reading))
           /\ lastOp' \in ResetOps => baseline'[i] = 0
           /\ lastOp' \notin ({"update"} \cup ResetOps) => baseline'[i] = baseline[i]
      ]_vars

\* C22 witness: the reading of a channel has dropped to 0, and its baseline
\* decays from above, between 0 and the earlier peak.
C22_Witness ==
    /\ AfterCycle
    /\ \E i \in Channels :
           /\ rawMilliVolts[i] = 0
           /\ peak[i] > 0
           /\ baseline[i] > 0
           /\ baseline[i] < peak[i] * FixedScale

\* C22, the frame: baselines untouched by a gated call and by the setter, and
\* a fresh peak after a reset.
C22_WitnessGated ==
    lastOp = "gated" /\ \E i \in Channels : baseline[i] > 0
C22_WitnessMargin ==
    lastOp = "margin" /\ \E i \in Channels : baseline[i] > 0
C22_WitnessAfterReset ==
    /\ AfterCycle
    /\ calls >= 1
    /\ \E i \in Channels :
           /\ peak[i] > 0
           /\ baseline[i] = EMA_ALPHA_PERCENT * peak[i]

\* C23: with the readings held at constant levels and a margin greater than
\* 0, under repeated executed updates every channel's spike flag eventually
\* becomes false and stays false; and once the state is Detected it remains
\* Detected, also through the cycles in which the spikes have cleared.
C23_SpikesAbsorbed ==
    /\ \A i \in Channels : <>[](~isSpike[i])
    /\ [][isFlameDetected => isFlameDetected']_vars

\* C23 witness: the readings still held above 0, every spike flag cleared by
\* the baseline, and the state still Detected.
C23_Witness ==
    /\ AfterCycle
    /\ isFlameDetected
    /\ SpikeCount = 0
    /\ cyc.k = 0
    /\ \E i \in Channels : rawMilliVolts[i] >= 1000 /\ deviation[i] > 0

\* C23, under margin 1: 3300 mV absorbed to within a millivolt.
C23_WitnessSmallMargin ==
    /\ AfterCycle
    /\ sensitivityMargin = 1
    /\ SpikeCount = 0
    /\ \E i \in Channels : rawMilliVolts[i] = 3300 /\ deviation[i] > 0

====
